---- MODULE Spec2Model ----
(***************************************************************************)
(* link-emailer/index.js: a CSV of recipients is read into `results`, the  *)
(* rows are mailed one at a time in batches of EMAILS_PER_MINUTE with      *)
(* retry/backoff per row, pacing between rows and a pause between batches, *)
(* and the annotated rows are written out (a .partial file on a fault).    *)
(*                                                                         *)
(* One action is one run-to-completion slice of the script: the code       *)
(* between two awaits (or between two stream events).                      *)
(***************************************************************************)
EXTENDS Integers, Sequences, FiniteSets, TLC

VARIABLES
    input,          \* rows of emails.csv, in file order
    results,        \* const results = []           (index.js:9)
    pc,             \* where the script is suspended
    i,              \* batch loop index             (index.js:129)
    batch,          \* results.slice(i, i + BATCH_SIZE): references into results
    j,              \* processBatch loop index      (index.js:75)
    attempt,        \* sendEmailWithRetry loop index (index.js:43)
    waitMs,         \* duration of the timer the script is suspended on
    waitKind,       \* which delay() call set that timer
    jitter,         \* Math.floor(Math.random() * 1000) of the current row
    warned,         \* the daily-limit warning was printed
    primaryHanded,  \* writeRecords was called on emails_with_status.csv
    primaryOut,     \* the rows it was called with
    partialHanded,  \* writeRecords was called on emails_with_status.csv.partial
    partialOut,     \* the rows it was called with
    fault,          \* what was thrown first: "none", "read", "iter", "write"
    \* ---- environment: what the Transport and the random source may still do
    failsLeft,      \* Transport failures the environment may still produce
    jitLeft,        \* non-zero jitter draws the environment may still produce
    \* ---- observers
    window,         \* ages (ms) of the Transport calls started in the last minute
    nCalls,         \* Transport calls started in this run
    calls,          \* Transport calls started for the current row
    oks,            \* of which succeeded
    errs,           \* rate-limit classification of each failed call of the row
    faultAt,        \* << nDone, nCalls >> when the fault was thrown
    nDone,          \* statuses assigned in this run
    nPauses,        \* inter-batch pauses performed
    batchLog,       \* every batch sliced so far
    lastEvent       \* the last wait or Transport call, for ordering claims

vars == << input, results, pc, i, batch, j, attempt, waitMs, waitKind, jitter,
           warned, primaryHanded, primaryOut, partialHanded, partialOut, fault,
           failsLeft, jitLeft, window, nCalls, calls, oks, errs, faultAt,
           nDone, nPauses, batchLog, lastEvent >>

----------------------------------------------------------------------------
(* Program constants *)

EMAILS_PER_DAY == 2000
EMAILS_PER_MINUTE == 20
BASE_DELAY_MS == 3000
RETRY_BASE_DELAY_MS == 5000
MAX_RETRIES == 3
BATCH_SIZE == EMAILS_PER_MINUTE
BATCH_PAUSE_MS == 60000
JITTER_RANGE == 1000
ERROR_PREFIX_LEN == 50

(* Bounds of the model *)

MaxRows == 2          \* lists of 0..MaxRows rows meet every Transport pattern
MaxBatches == 2       \* long lists: MaxBatches batches, the last full or of one row
MaxDev == 1           \* failures + non-zero jitters met by a long list

MINUTE_MS == 60 * 1000

----------------------------------------------------------------------------
(* Pure helpers *)

Min(a, b) == IF a < b THEN a ELSE b

RECURSIVE Pow2(_)
Pow2(k) == IF k <= 0 THEN 1 ELSE 2 * Pow2(k - 1)

\* String.prototype.includes: case-sensitive substring containment
Includes(s, p) ==
    \E k \in 1..(Len(s) - Len(p) + 1) : SubSeq(s, k, k + Len(p) - 1) = p

\* String.prototype.substring(0, len)
Substring0(s, len) == SubSeq(s, 1, Min(len, Len(s)))

\* delay(ms, attemptNumber = 0): the timer's duration
delay(ms, attemptNumber) ==
    LET backoffFactor == IF attemptNumber > 0 THEN Pow2(attemptNumber - 1) ELSE 1
    IN  ms * backoffFactor

\* error.message || 'Unknown error'
ErrorMessage(message) == IF message = "" THEN "Unknown error" ELSE message

\* the rate-limit / quota test of the catch block
IsRateLimit(errorMessage) ==
    \/ Includes(errorMessage, "quota")
    \/ Includes(errorMessage, "rate limit")
    \/ Includes(errorMessage, "450")
    \/ Includes(errorMessage, "421")
    \/ Includes(errorMessage, "452")

\* mutant: the rate-limit branch waits the standard interval
RateLimitDelaySame(att) == delay(RETRY_BASE_DELAY_MS, att)

RateLimitDelayMs(att) == delay(RETRY_BASE_DELAY_MS * 2, att)

StandardDelayMs(att) == delay(RETRY_BASE_DELAY_MS, att)

\* mutant: the status is the message alone, without the ERROR: marker
ErrorStatusBare(errorMessage) ==
    Substring0(errorMessage, ERROR_PREFIX_LEN) \o "..."

ErrorStatus(errorMessage) ==
    "ERROR: " \o Substring0(errorMessage, ERROR_PREFIX_LEN) \o "..."

\* mutant: the attempt loop has no bound
AttemptsRemainAlways(att, retries) == TRUE

\* mutant: the attempt loop runs to twice the retry budget
AttemptsRemainTwice(att, retries) == att <= 2 * retries + 1

\* mutants of the attempt loop's condition: one attempt short, one too many
AttemptsRemainShort(att, retries) == att <= retries

AttemptsRemainLong(att, retries) == att <= retries + 2

\* the condition of the attempt loop
AttemptsRemain(att, retries) == att <= retries + 1

\* mutants of the else-if: one retry short, one retry too many
RetryBudgetLeftShort(att, retries) == att < retries

RetryBudgetLeftLong(att, retries) == att <= retries + 1

\* the else-if of the catch block
RetryBudgetLeft(att, retries) == att <= retries

\* mutant: results.unshift(data)
PushFront(rs, data) == << data >> \o rs

\* results.push(data)
Push(rs, data) == Append(rs, data)

\* mutants of the slice: it starts one row late, one row early
SliceSkipFirst(rs, from, to) ==
    [k \in 1..(Min(to, Len(rs)) - Min(from + 1, Len(rs))) |->
        Min(from + 1, Len(rs)) + k]

SliceFromPrev(rs, from, to) ==
    LET lo == IF from > 0 THEN from - 1 ELSE 0 IN
    [k \in 1..(Min(to, Len(rs)) - Min(lo, Len(rs))) |-> Min(lo, Len(rs)) + k]

\* mutants of the slice: one row short, one row too many
SliceShort(rs, from, to) ==
    [k \in 1..(Min(to - 1, Len(rs)) - Min(from, Len(rs))) |-> Min(from, Len(rs)) + k]

SliceOverlap(rs, from, to) ==
    [k \in 1..(Min(to + 1, Len(rs)) - Min(from, Len(rs))) |-> Min(from, Len(rs)) + k]

\* results.slice(from, to): the rows at 0-based positions from..to-1, shared
\* with results (a shallow copy), here as 1-based references
Slice(rs, from, to) ==
    [k \in 1..(Min(to, Len(rs)) - Min(from, Len(rs))) |-> Min(from, Len(rs)) + k]

\* mutant: the batch holds copies of the rows, the assignment misses results
SetStatusOnCopy(rs, ref, status) == rs

\* row['Status'] = status, on the row object shared by batch and results
SetStatus(rs, ref, status) ==
    [rs EXCEPT ![ref] = [id |-> rs[ref].id, Status |-> status]]

\* mutant: the pause is also taken after a last, full batch
MoreBatchesInclusive(idx, len) == idx + BATCH_SIZE <= len

\* the condition of the inter-batch pause
MoreBatches(idx, len) == idx + BATCH_SIZE < len

\* mutant: the pacing timer is scaled like a second attempt's backoff
PaceScaled(jit) == delay(BASE_DELAY_MS + jit, 2)

\* mutant: the pacing timer is set to the jitter alone
PaceNoBase(jit) == delay(jit, 0)

PaceMs(jit) == delay(BASE_DELAY_MS + jit, 0)

\* mutant: the warning is printed for every list that has a row
OverDailyLimitAny(len) == len > 0

\* the daily-limit check of the 'end' handler
OverDailyLimit(len) == len > EMAILS_PER_DAY

HasStatus(row) == "Status" \in DOMAIN row

\* mutant: the catch block saves the processed rows only
PartialProcessedOnly(rs) == SelectSeq(rs, HasStatus)

\* what the catch block hands to writeRecords
PartialRecords(rs) == rs

\* what the try block hands to writeRecords
PrimaryRecords(rs) == rs

----------------------------------------------------------------------------
(* Environment *)

\* error.message of a rejected sendMail
Messages ==
    { "", "Daily user sending quota exceeded", "rate limit", "450 4.2.1",
      "421 4.7.0 Try again later", "452 4.5.3",
      "connect ETIMEDOUT 142.250.0.0:465: Rate Limit reached, Quota used" }

Jitters == {0, JITTER_RANGE - 1}

LongLens == { MaxBatches * BATCH_SIZE, (MaxBatches - 1) * BATCH_SIZE + 1 }

Lens == (0..MaxRows) \cup LongLens

Budgets(n) ==
    { << f, MaxDev - f >> : f \in 0..MaxDev }
      \cup (IF n <= MaxRows THEN { << n * (MAX_RETRIES + 1), 0 >> } ELSE {})

----------------------------------------------------------------------------
(* Observers *)

IsErrorStatus(s) == Len(s) >= 7 /\ SubSeq(s, 1, 7) = "ERROR: "

Terminal(row) ==
    HasStatus(row) /\ (row.Status = "SENT" \/ row.Status = "FAILED"
                        \/ IsErrorStatus(row.Status))

Ids(rs) == [k \in 1..Len(rs) |-> rs[k].id]

\* time passes: every recorded call ages, calls older than a minute drop out
Age(w, ms) ==
    LET aged == [k \in 1..Len(w) |-> w[k] + ms]
    IN  SelectSeq(aged, LAMBDA a : a <= MINUTE_MS)

Engine == << i, batch, j, attempt >>
Outputs == << primaryHanded, primaryOut, partialHanded, partialOut >>
Env == << failsLeft, jitLeft >>
RowObs == << calls, oks, errs >>

----------------------------------------------------------------------------
\* the script is loaded: results is empty, emails.csv holds n rows, and the
\* environment may fail b[1] Transport calls and draw b[2] non-zero jitters
Start(n, b) ==
    /\ input = [k \in 1..n |-> [id |-> k]]
    /\ failsLeft = b[1] /\ jitLeft = b[2]
    /\ results = << >>
    /\ pc = "reading"
    /\ i = 0 /\ batch = << >> /\ j = 0 /\ attempt = 0
    /\ waitMs = 0 /\ waitKind = "none" /\ jitter = 0
    /\ warned = FALSE
    /\ primaryHanded = FALSE /\ primaryOut = << >>
    /\ partialHanded = FALSE /\ partialOut = << >>
    /\ fault = "none"
    /\ window = << >> /\ nCalls = 0
    /\ calls = 0 /\ oks = 0 /\ errs = << >>
    /\ faultAt = << 0, 0 >>
    /\ nDone = 0 /\ nPauses = 0 /\ batchLog = << >>
    /\ lastEvent = "none"

Init == \E n \in Lens : \E b \in Budgets(n) : Start(n, b)

\* lists around the daily limit, met by a Transport that never fails and a
\* jitter of 0; a list of one row meets every Transport pattern
InitDaily ==
    \/ Start(1, << MAX_RETRIES + 1, 0 >>)
    \/ \E n \in {EMAILS_PER_DAY, EMAILS_PER_DAY + 1} : Start(n, << 0, 0 >>)

\* short lists under every Transport pattern, and one list of several batches
InitLive ==
    \/ \E n \in 0..MaxRows : Start(n, << n * (MAX_RETRIES + 1), 0 >>)
    \/ Start((MaxBatches - 1) * BATCH_SIZE + 1, << 0, 0 >>)

----------------------------------------------------------------------------
(* The input stream *)

\* .on('data', (data) => results.push(data))
OnData ==
    /\ pc = "reading"
    /\ Len(results) < Len(input)
    /\ results' = Push(results, input[Len(results) + 1])
    /\ UNCHANGED << nDone, input, pc, Engine, waitMs, waitKind, jitter, warned, Outputs,
                    fault, Env, window, nCalls, RowObs, faultAt, nPauses,
                    batchLog, lastEvent >>

\* the read stream emits 'error': no listener is attached, the process dies
\* and 'end' is never delivered
ReadError ==
    /\ pc = "reading"
    /\ pc' = "crashed"
    /\ fault' = "read"
    /\ faultAt' = << nDone, nCalls >>
    /\ UNCHANGED << nDone, input, results, Engine, waitMs, waitKind, jitter, warned,
                    Outputs, Env, window, nCalls, RowObs, nPauses, batchLog,
                    lastEvent >>

\* .on('end', async () => { try { daily-limit check; i = 0
OnEnd ==
    /\ pc = "reading"
    /\ Len(results) = Len(input)
    /\ warned' = OverDailyLimit(Len(results))
    /\ i' = 0
    /\ pc' = "loop"
    /\ UNCHANGED << nDone, input, results, batch, j, attempt, waitMs, waitKind, jitter,
                    Outputs, fault, Env, window, nCalls, RowObs, faultAt,
                    nPauses, batchLog, lastEvent >>

----------------------------------------------------------------------------
(* The batch loop *)

\* i < results.length: slice the batch and enter processBatch
NextBatch ==
    /\ pc = "loop"
    /\ i < Len(results)
    /\ batch' = Slice(results, i, i + BATCH_SIZE)
    /\ batchLog' = Append(batchLog, Slice(results, i, i + BATCH_SIZE))
    /\ j' = 0
    /\ pc' = "row"
    /\ UNCHANGED << nDone, input, results, i, attempt, waitMs, waitKind, jitter, warned,
                    Outputs, fault, Env, window, nCalls, RowObs, faultAt,
                    nPauses, lastEvent >>

\* the next row of the batch: sendEmailWithRetry starts, attempt = 1
StartSend ==
    /\ pc = "row"
    /\ j < Len(batch)
    /\ attempt' = 1
    /\ IF AttemptsRemain(1, MAX_RETRIES)
       THEN /\ pc' = "sending"
            /\ window' = Append(window, 0)
            /\ nCalls' = nCalls + 1
            /\ calls' = 1
            /\ lastEvent' = "call"
            /\ results' = results
            /\ UNCHANGED << jitter, jitLeft, nDone >>
       ELSE /\ results' = SetStatus(results, batch[j + 1], "FAILED")
            /\ calls' = 0
            /\ nDone' = nDone + 1
            /\ \E jit \in Jitters :
                 /\ jit > 0 => jitLeft > 0
                 /\ jitter' = jit
                 /\ jitLeft' = IF jit > 0 THEN jitLeft - 1 ELSE jitLeft
            /\ pc' = "pace"
            /\ UNCHANGED << window, nCalls, lastEvent >>
    /\ oks' = 0
    /\ errs' = << >>
    /\ UNCHANGED << input, i, batch, j, waitMs, waitKind, warned, Outputs, fault,
                    failsLeft, faultAt, nPauses, batchLog >>

\* sendMail resolves: return 'SENT', assigned to row['Status']; the jitter is
\* drawn and the pacing timer set
SendOk ==
    /\ pc = "sending"
    /\ results' = SetStatus(results, batch[j + 1], "SENT")
    /\ oks' = oks + 1
    /\ \E jit \in Jitters :
         /\ jit > 0 => jitLeft > 0
         /\ jitter' = jit
         /\ jitLeft' = IF jit > 0 THEN jitLeft - 1 ELSE jitLeft
    /\ nDone' = nDone + 1
    /\ pc' = "pace"
    /\ UNCHANGED << input, Engine, waitMs, waitKind, warned, Outputs, fault,
                    failsLeft, window, nCalls, calls, errs, faultAt, nPauses,
                    batchLog, lastEvent >>

\* sendMail rejects and the catch block sets a backoff timer
SendFailRetry ==
    /\ pc = "sending"
    /\ failsLeft > 0
    /\ \E message \in Messages :
         LET errorMessage == ErrorMessage(message) IN
         /\ IsRateLimit(errorMessage) \/ RetryBudgetLeft(attempt, MAX_RETRIES)
         /\ errs' = Append(errs, IsRateLimit(errorMessage))
         /\ waitMs' = IF IsRateLimit(errorMessage)
                      THEN RateLimitDelayMs(attempt)
                      ELSE StandardDelayMs(attempt)
         /\ waitKind' = IF IsRateLimit(errorMessage) THEN "ratelimit" ELSE "retry"
    /\ failsLeft' = failsLeft - 1
    /\ pc' = "backoff"
    /\ UNCHANGED << nDone, input, results, Engine, jitter, warned, Outputs, fault,
                    jitLeft, window, nCalls, calls, oks, faultAt, nPauses,
                    batchLog, lastEvent >>

\* sendMail rejects on the last attempt with a message that is no rate limit:
\* return `ERROR: ...`, assigned to row['Status']
SendFailError ==
    /\ pc = "sending"
    /\ failsLeft > 0
    /\ \E message \in Messages :
         LET errorMessage == ErrorMessage(message) IN
         /\ ~IsRateLimit(errorMessage)
         /\ ~RetryBudgetLeft(attempt, MAX_RETRIES)
         /\ errs' = Append(errs, FALSE)
         /\ results' = SetStatus(results, batch[j + 1], ErrorStatus(errorMessage))
    /\ failsLeft' = failsLeft - 1
    /\ \E jit \in Jitters :
         /\ jit > 0 => jitLeft > 0
         /\ jitter' = jit
         /\ jitLeft' = IF jit > 0 THEN jitLeft - 1 ELSE jitLeft
    /\ nDone' = nDone + 1
    /\ pc' = "pace"
    /\ UNCHANGED << input, Engine, waitMs, waitKind, warned, Outputs, fault,
                    window, nCalls, calls, oks, faultAt, nPauses, batchLog,
                    lastEvent >>

\* the backoff timer fires, attempt++, the loop goes on: sendMail again
BackoffRetry ==
    /\ pc = "backoff"
    /\ AttemptsRemain(attempt + 1, MAX_RETRIES)
    /\ attempt' = attempt + 1
    /\ window' = Append(Age(window, waitMs), 0)
    /\ nCalls' = nCalls + 1
    /\ calls' = calls + 1
    /\ lastEvent' = "call"
    /\ pc' = "sending"
    /\ UNCHANGED << nDone, input, results, i, batch, j, waitMs, waitKind, jitter, warned,
                    Outputs, fault, Env, oks, errs, faultAt, nPauses, batchLog >>

\* the backoff timer fires, attempt++, the loop ends: return 'FAILED'
BackoffExhausted ==
    /\ pc = "backoff"
    /\ ~AttemptsRemain(attempt + 1, MAX_RETRIES)
    /\ attempt' = attempt + 1
    /\ window' = Age(window, waitMs)
    /\ lastEvent' = waitKind
    /\ results' = SetStatus(results, batch[j + 1], "FAILED")
    /\ \E jit \in Jitters :
         /\ jit > 0 => jitLeft > 0
         /\ jitter' = jit
         /\ jitLeft' = IF jit > 0 THEN jitLeft - 1 ELSE jitLeft
    /\ nDone' = nDone + 1
    /\ pc' = "pace"
    /\ UNCHANGED << input, i, batch, j, waitMs, waitKind, warned, Outputs, fault,
                    failsLeft, nCalls, RowObs, faultAt, nPauses, batchLog >>

\* the pacing timer fires: i++ of processBatch
Pace ==
    /\ pc = "pace"
    /\ window' = Age(window, PaceMs(jitter))
    /\ lastEvent' = "pace"
    /\ j' = j + 1
    /\ pc' = "row"
    /\ UNCHANGED << nDone, input, results, i, batch, attempt, waitMs, waitKind, jitter,
                    warned, Outputs, fault, Env, nCalls, RowObs, faultAt,
                    nPauses, batchLog >>

\* processBatch returns; the pause timer is set if this is not the last batch
EndBatch ==
    /\ pc = "row"
    /\ j >= Len(batch)
    /\ IF MoreBatches(i, Len(results))
       THEN pc' = "pause" /\ i' = i
       ELSE pc' = "loop" /\ i' = i + BATCH_SIZE
    /\ UNCHANGED << nDone, input, results, batch, j, attempt, waitMs, waitKind, jitter,
                    warned, Outputs, fault, Env, window, nCalls, RowObs, faultAt,
                    nPauses, batchLog, lastEvent >>

\* the pause timer fires: i += BATCH_SIZE
Pause ==
    /\ pc = "pause"
    /\ window' = Age(window, delay(BATCH_PAUSE_MS, 0))
    /\ nPauses' = nPauses + 1
    /\ lastEvent' = "pause"
    /\ i' = i + BATCH_SIZE
    /\ pc' = "loop"
    /\ UNCHANGED << nDone, input, results, batch, j, attempt, waitMs, waitKind, jitter,
                    warned, Outputs, fault, Env, nCalls, RowObs, faultAt,
                    batchLog >>

----------------------------------------------------------------------------
(* The outputs *)

\* the loop is over: csvWriter.writeRecords(results) on the primary file
WritePrimary ==
    /\ pc = "loop"
    /\ ~(i < Len(results))
    /\ primaryHanded' = TRUE
    /\ primaryOut' = PrimaryRecords(results)
    /\ pc' = "writing"
    /\ UNCHANGED << nDone, input, results, Engine, waitMs, waitKind, jitter, warned,
                    partialHanded, partialOut, fault, Env, window, nCalls, RowObs,
                    faultAt, nPauses, batchLog, lastEvent >>

\* the primary write resolves: "All done!"
WriteDone ==
    /\ pc = "writing"
    /\ pc' = "done"
    /\ UNCHANGED << nDone, input, results, Engine, waitMs, waitKind, jitter, warned,
                    Outputs, fault, Env, window, nCalls, RowObs, faultAt,
                    nPauses, batchLog, lastEvent >>

\* catch (error): csvWriter.writeRecords(results) on the .partial file, reached
\* in the same slice as the throw
EnterCatch ==
    /\ partialHanded' = TRUE
    /\ partialOut' = PartialRecords(results)
    /\ pc' = "saving"

\* the primary write rejects: the catch block is entered
WriteFails ==
    /\ pc = "writing"
    /\ fault' = "write"
    /\ faultAt' = << nDone, nCalls >>
    /\ EnterCatch
    /\ UNCHANGED << nDone, input, results, Engine, waitMs, waitKind, jitter, warned,
                    primaryHanded, primaryOut, Env, window, nCalls, RowObs,
                    nPauses, batchLog, lastEvent >>

\* something inside the try block throws while the rows are being processed
Fault ==
    /\ pc \in {"loop", "row", "sending", "backoff", "pace", "pause"}
    /\ fault' = "iter"
    /\ faultAt' = << nDone, nCalls >>
    /\ EnterCatch
    /\ UNCHANGED << nDone, input, results, Engine, waitMs, waitKind, jitter, warned,
                    primaryHanded, primaryOut, Env, window, nCalls, RowObs,
                    nPauses, batchLog, lastEvent >>

\* the partial write resolves: "Process failed but partial results saved"
PartialDone ==
    /\ pc = "saving"
    /\ pc' = "halted"
    /\ UNCHANGED << nDone, input, results, Engine, waitMs, waitKind, jitter, warned,
                    Outputs, fault, Env, window, nCalls, RowObs, faultAt,
                    nPauses, batchLog, lastEvent >>

\* the partial write rejects inside the catch block: an unhandled rejection
PartialFails ==
    /\ pc = "saving"
    /\ pc' = "crashed"
    /\ UNCHANGED << nDone, input, results, Engine, waitMs, waitKind, jitter, warned,
                    Outputs, fault, Env, window, nCalls, RowObs, faultAt, nPauses,
                    batchLog, lastEvent >>

----------------------------------------------------------------------------
Next ==
    \/ OnData \/ ReadError \/ OnEnd
    \/ NextBatch \/ StartSend \/ SendOk \/ SendFailRetry \/ SendFailError
    \/ BackoffRetry \/ BackoffExhausted \/ Pace \/ EndBatch \/ Pause
    \/ WritePrimary \/ WriteDone \/ WriteFails \/ Fault
    \/ PartialDone \/ PartialFails

Spec == Init /\ [][Next]_vars

SpecDaily == InitDaily /\ [][Next]_vars

\* the event loop runs a slice whenever one is ready: every sendMail settles,
\* every timer fires, every write settles
FairSpec == InitLive /\ [][Next]_vars /\ WF_vars(Next)

----------------------------------------------------------------------------
(* Claims *)

Pending(row) == ~HasStatus(row)

\* the row sendEmailWithRetry was last called for
CurrentRow == results[batch[j + 1]]

AllRateLimit == \A k \in 1..Len(errs) : errs[k]

RECURSIVE Flatten(_)
Flatten(ss) == IF ss = << >> THEN << >> ELSE Head(ss) \o Flatten(Tail(ss))

BatchIds(b) == [k \in 1..Len(b) |-> results[b[k]].id]

\* C1: when the rows are handed to the primary output, every row has a
\* status among SENT, ERROR: ... and FAILED; none is left without a Status.
C1_AllTerminalOnSuccess ==
    primaryHanded => \A k \in 1..Len(primaryOut) : Terminal(primaryOut[k])

C1_Witness ==
    /\ primaryHanded
    /\ \E k \in 1..Len(primaryOut) : primaryOut[k].Status = "FAILED"
    /\ \E k \in 1..Len(primaryOut) : IsErrorStatus(primaryOut[k].Status)

\* C2: the rows handed to the sink, on the primary and on the partial path,
\* are the input rows, as many and in the same order.
C2_SameRowsSameOrder ==
    /\ primaryHanded => Ids(primaryOut) = Ids(input)
    /\ partialHanded => Ids(partialOut) = Ids(input)

C2_Witness ==
    /\ primaryHanded /\ partialHanded
    /\ Len(input) >= 2
    /\ Len(partialOut) = Len(input)

\* C3: at most EMAILS_PER_MINUTE Transport calls (first attempts and retries)
\* are started within any window of 60 seconds.
C3_RateCeiling == Len(window) <= EMAILS_PER_MINUTE

C3_Witness ==
    /\ Len(window) = EMAILS_PER_MINUTE
    /\ pc = "sending"
    /\ Len(results) > EMAILS_PER_MINUTE

\* C4: after a fault thrown when k of n rows were processed (k < n), the
\* partial output holds all n rows in input order, the first k with a
\* terminal status and the others without a Status, and no Transport call
\* was made after the fault.
C4_PartialAfterFault ==
    (partialHanded /\ fault = "iter" /\ faultAt[1] < Len(input)) =>
        /\ Ids(partialOut) = Ids(input)
        /\ \A k \in 1..Len(partialOut) :
             IF k <= faultAt[1] THEN Terminal(partialOut[k])
                                ELSE Pending(partialOut[k])
        /\ nCalls = faultAt[2]
        /\ pc \in {"saving", "halted", "crashed"}

C4_Witness ==
    /\ partialHanded /\ fault = "iter"
    /\ faultAt[1] = 1 /\ Len(input) = 2
    /\ pc = "halted"

\* C5: every fault outside the send path (the input becoming unreadable, the
\* primary write failing, a throw while iterating) leads to a partial save
\* of the rows, and is not raised again once that save succeeded.
C5_PartialSaveOnEveryFault ==
    /\ fault # "none" => partialHanded
    /\ pc = "crashed" => partialHanded

\* C6: a row whose Transport calls failed f <= MAX_RETRIES times before one
\* succeeded is SENT after exactly f + 1 calls; sendEmailWithRetry never
\* gives up before MAX_RETRIES + 1 failures.
C6_SentAfterFPlusOne ==
    (pc = "pace" /\ Len(errs) <= MAX_RETRIES) =>
        /\ CurrentRow.Status = "SENT"
        /\ oks = 1
        /\ calls = Len(errs) + 1

C6_Witness ==
    /\ pc = "pace"
    /\ Len(errs) = MAX_RETRIES
    /\ CurrentRow.Status = "SENT"
    /\ calls = MAX_RETRIES + 1

\* C7: when every call for a row fails with a rate-limit message, the row
\* gets a terminal FAILED/ERROR status after exactly MAX_RETRIES + 1 calls,
\* and no further call is made for it.
C7_PersistentRateLimit ==
    AllRateLimit =>
        /\ calls <= MAX_RETRIES + 1
        /\ (pc = "pace" /\ oks = 0) =>
              /\ calls = MAX_RETRIES + 1
              /\ Len(errs) = calls
              /\ (CurrentRow.Status = "FAILED" \/ IsErrorStatus(CurrentRow.Status))

C7_Witness ==
    /\ pc = "pace" /\ oks = 0
    /\ AllRateLimit
    /\ Len(errs) = MAX_RETRIES + 1
    /\ CurrentRow.Status = "FAILED"

\* C8: the wait after a rate-limit failure at attempt a is
\* 2 * RETRY_BASE_DELAY_MS * 2^(a-1), strictly more than the wait after a
\* generic failure at the same attempt, RETRY_BASE_DELAY_MS * 2^(a-1).
C8_RateLimitWaitLonger ==
    pc = "backoff" =>
        /\ attempt >= 1
        /\ IF waitKind = "ratelimit"
           THEN /\ waitMs = 2 * RETRY_BASE_DELAY_MS * Pow2(attempt - 1)
                /\ waitMs > StandardDelayMs(attempt)
           ELSE /\ waitKind = "retry"
                /\ waitMs = RETRY_BASE_DELAY_MS * Pow2(attempt - 1)
                /\ waitMs < RateLimitDelayMs(attempt)

C8_Witness ==
    /\ pc = "backoff"
    /\ waitKind = "ratelimit"
    /\ attempt = MAX_RETRIES + 1
    /\ waitMs = 80000

\* C9: the batches are contiguous runs of the input in input order, their
\* concatenation is the input, each has at most EMAILS_PER_MINUTE rows, each
\* but the last has exactly EMAILS_PER_MINUTE, and no row is in two batches.
C9_Batches ==
    LET all == Flatten(batchLog) IN
    /\ \A b \in 1..Len(batchLog) :
         /\ Len(batchLog[b]) <= EMAILS_PER_MINUTE
         /\ b < Len(batchLog) => Len(batchLog[b]) = EMAILS_PER_MINUTE
    /\ all = [k \in 1..Len(all) |-> k]
    /\ BatchIds(all) = SubSeq(Ids(input), 1, Len(all))
    /\ primaryHanded => BatchIds(all) = Ids(input)

C9_Witness ==
    /\ primaryHanded
    /\ Len(batchLog) = MaxBatches
    /\ Len(batchLog[MaxBatches]) = 1

\* C10: one inter-batch pause is taken between two consecutive batches,
\* after the last row of the one is finished and before the first Transport
\* call of the other, and none after the last batch (a full one included) or
\* for an empty list.
C10_PauseBetweenBatches ==
    /\ pc \in {"row", "sending", "backoff", "pace", "pause"} =>
          nPauses = Len(batchLog) - 1
    /\ (pc = "loop" /\ i < Len(results)) => nPauses = Len(batchLog)
    /\ ((pc = "loop" /\ i >= Len(results)) \/ pc \in {"writing", "done"}) =>
          nPauses = (IF Len(batchLog) = 0 THEN 0 ELSE Len(batchLog) - 1)
    /\ pc = "pause" =>
          /\ \A k \in 1..Len(batch) : Terminal(results[batch[k]])
          /\ \E k \in 1..Len(results) : Pending(results[k])

C10_Witness ==
    /\ pc = "done"
    /\ Len(input) = MaxBatches * BATCH_SIZE
    /\ nPauses = MaxBatches - 1

\* C11: a Transport failure, whatever its message and attempt, sets a backoff
\* timer or gives the row a terminal status; it throws nothing and does not
\* lead to the catch block.
C11_FailureStaysInSendPath ==
    [][failsLeft' < failsLeft =>
          /\ fault' = "none" /\ ~partialHanded'
          /\ \/ pc' = "backoff" /\ waitMs' > 0
             \/ pc' = "pace" /\ Terminal(CurrentRow')]_vars

C11_Witness ==
    /\ pc = "pace" /\ fault = "none"
    /\ Len(errs) = MAX_RETRIES + 1
    /\ errs[1] /\ ~errs[MAX_RETRIES + 1]
    /\ IsErrorStatus(CurrentRow.Status)

\* C12: a row's Status is written at most once, to a terminal value: the
\* assignments made are as many as the rows that have a Status, and a step
\* never changes or removes a Status a row has.
C12_StatusWrittenOnce ==
    /\ nDone = Cardinality({k \in 1..Len(results) : HasStatus(results[k])})
    /\ \A k \in 1..Len(results) : HasStatus(results[k]) => Terminal(results[k])

C12_Witness ==
    /\ pc = "done"
    /\ nDone = Len(results)
    /\ nDone > EMAILS_PER_MINUTE

\* C13: rows are processed one at a time in input order: the rows that have
\* a Status are a prefix of the input, and a Transport call is only ever
\* outstanding for the first row without one.
C13_SequentialInOrder ==
    /\ \A k \in 1..Len(results) : HasStatus(results[k]) <=> k <= nDone
    /\ pc \in {"sending", "backoff"} =>
          /\ batch[j + 1] = nDone + 1
          /\ Pending(CurrentRow)
    /\ pc = "pace" => batch[j + 1] = nDone

C13_Witness ==
    /\ pc = "sending"
    /\ nDone = 1 /\ Len(results) = 2
    /\ results[1].Status = "FAILED"
    /\ attempt = 2

\* C14: sendEmailWithRetry makes at most MAX_RETRIES + 1 Transport calls for
\* a row, whatever the classification of each failure.
C14_AtMostMaxRetriesPlusOneCalls ==
    /\ calls <= MAX_RETRIES + 1
    /\ pc = "sending" => attempt = calls /\ attempt <= MAX_RETRIES + 1

C14_Witness ==
    /\ pc = "sending"
    /\ calls = MAX_RETRIES + 1
    /\ errs = << TRUE, FALSE, TRUE >>

\* C15: a row gets ERROR: ... exactly when its call number MAX_RETRIES + 1
\* fails with a message that is no rate limit; a generic failure at an
\* earlier attempt sets the standard backoff timer and another attempt follows.
C15_ErrorOnlyOnLastGenericFailure ==
    /\ pc = "pace" =>
          /\ IsErrorStatus(CurrentRow.Status) <=>
                (Len(errs) = MAX_RETRIES + 1 /\ ~errs[MAX_RETRIES + 1])
          /\ IsErrorStatus(CurrentRow.Status) =>
                Len(CurrentRow.Status) <= 7 + ERROR_PREFIX_LEN + 3
    /\ (pc = "backoff" /\ ~errs[Len(errs)]) =>
          /\ attempt <= MAX_RETRIES
          /\ waitKind = "retry"
          /\ waitMs = StandardDelayMs(attempt)
          /\ AttemptsRemain(attempt + 1, MAX_RETRIES)

C15_Witness ==
    /\ pc = "pace"
    /\ errs = << FALSE, FALSE, FALSE, FALSE >>
    /\ Len(CurrentRow.Status) = 7 + ERROR_PREFIX_LEN + 3

\* C16: a row gets FAILED exactly when its call number MAX_RETRIES + 1 fails
\* with a rate-limit message; the rate-limit backoff is then still waited
\* out, and FAILED is returned after it without another Transport call.
C16_FailedOnLastRateLimitFailure ==
    /\ pc = "pace" =>
          /\ CurrentRow.Status = "FAILED" <=>
                (Len(errs) = MAX_RETRIES + 1 /\ errs[MAX_RETRIES + 1])
          /\ CurrentRow.Status = "FAILED" =>
                /\ lastEvent = "ratelimit"
                /\ waitMs = RateLimitDelayMs(MAX_RETRIES + 1)
                /\ calls = MAX_RETRIES + 1
    /\ (pc = "backoff" /\ errs[Len(errs)]) => waitKind = "ratelimit"

C16_Witness ==
    /\ pc = "pace"
    /\ errs = << FALSE, FALSE, FALSE, TRUE >>
    /\ CurrentRow.Status = "FAILED"
    /\ lastEvent = "ratelimit"

\* C17: no row is mailed twice: at most one Transport call per row succeeds,
\* no call is made for a row that has a Status or a successful call, and a
\* row is SENT exactly when one of its calls succeeded.
C17_NoDoubleSend ==
    /\ oks <= 1
    /\ pc \in {"sending", "backoff"} => oks = 0 /\ Pending(CurrentRow)
    /\ pc = "pace" =>
          /\ HasStatus(CurrentRow)
          /\ CurrentRow.Status = "SENT" <=> oks = 1
          /\ oks = 1 => calls = Len(errs) + 1

C17_Witness ==
    /\ pc = "pace"
    /\ oks = 1 /\ calls = 2
    /\ nDone = 2
    /\ results[1].Status = "SENT" /\ results[2].Status = "SENT"

\* C18: after every row's send, whatever its status, the pacing timer of
\* BASE_DELAY_MS plus a jitter of 0..999 ms, unscaled, is waited out: also
\* after the last row of a batch, before the inter-batch pause, and after
\* the last row of the run, before the rows are written.
C18_PacingAfterEveryRow ==
    /\ pc = "pace" =>
          /\ Terminal(CurrentRow)
          /\ jitter \in 0..(JITTER_RANGE - 1)
          /\ PaceMs(jitter) = BASE_DELAY_MS + jitter
    /\ pc = "row" => nDone = i + j /\ (j > 0 => lastEvent = "pace")
    /\ pc = "pause" => lastEvent = "pace" /\ j = Len(batch) /\ nDone = i + j
    /\ (pc \in {"writing", "done"} /\ Len(results) > 0) =>
          lastEvent = "pace" /\ j = Len(batch) /\ nDone = Len(results)

C18_Witness ==
    /\ pc = "pause"
    /\ lastEvent = "pace"
    /\ jitter = JITTER_RANGE - 1
    /\ nDone = EMAILS_PER_MINUTE

\* C19: the daily limit only warns: the warning is printed exactly when the
\* list is longer than EMAILS_PER_DAY, and a completed run has processed
\* every row, warned or not.
C19_DailyLimitAdvisory ==
    /\ (pc # "reading" /\ fault # "read") =>
          (warned <=> Len(results) > EMAILS_PER_DAY)
    /\ pc = "reading" => ~warned
    /\ pc = "done" =>
          /\ nDone = Len(input)
          /\ \A k \in 1..Len(results) : Terminal(results[k])
    /\ pc \in {"sending", "pace"} => batch[j + 1] = i + j + 1

C19_Witness ==
    /\ warned
    /\ Len(results) = EMAILS_PER_DAY + 1
    /\ pc = "row" /\ nDone = 1
    /\ results[1].Status = "SENT"

\* the steps the run can still take, at most
RowCost == 2 * (MAX_RETRIES + 1) + 6

Variant ==
    LET left == Len(input) - nDone IN
    CASE pc = "reading" -> RowCost * left + 11 + (Len(input) - Len(results))
      [] pc = "loop"    -> RowCost * left + 10
      [] pc = "row"     -> RowCost * left + (IF j < Len(batch) THEN 9 ELSE 12)
      [] pc = "sending" -> RowCost * left + 10 - 2 * attempt
      [] pc = "backoff" -> RowCost * left + 9 - 2 * attempt
      [] pc = "pace"    -> RowCost * left + 13
      [] pc = "pause"   -> RowCost * left + 11
      [] pc = "writing" -> 2
      [] pc = "saving"  -> 1
      [] OTHER          -> 0

Ended == pc \in {"done", "halted", "crashed"}

\* C20: a run over a list that was read terminates, whatever the Transport
\* does: every step lowers a natural-number variant, and once the 'end'
\* handler runs it eventually stops with the rows handed to the primary or to
\* the partial output.
C20_Terminates ==
    /\ [][Variant' < Variant]_vars
    /\ [](Variant >= 0)
    /\ (pc = "loop") ~> (Ended /\ (primaryHanded \/ partialHanded))

C20_Witness ==
    /\ pc = "done"
    /\ Len(results) = 2
    /\ results[1].Status = "FAILED" /\ results[2].Status = "FAILED"

====
